---- MODULE Spec2Model ----
(***************************************************************************)
(* A model of the `los` crate: the bit-packed vector (bitvec.rs), the bit  *)
(* matrix (bitmat.rs), the GF(2) elimination and minimum-weight solve      *)
(* (bitalg.rs) and the Lights Off reduction (ligsol.rs).                   *)
(*                                                                         *)
(* A machine word (usize) is modelled as the set of the positions of its   *)
(* one bits, a subset of 0..WORDSIZE-1: `|` is union, `& !m` is set        *)
(* difference, `^` is symmetric difference, count_ones is cardinality.     *)
(* A Vec<T> is a function over 0..n-1, so indices are the source's own.    *)
(***************************************************************************)
EXTENDS Integers, FiniteSets, Sequences, TLC

VARIABLES
    vec,          \* BitVec under test: [buf, len]
    pvec,         \* the BitVec as it was before the last operation
    sys,          \* BitGauss.sys: the rows of the augmented matrix
    rank,         \* BitGauss.rank
    psys,         \* BitGauss.sys as it was before the last operation
    prank,        \* BitGauss.rank as it was before the last operation
    orig,         \* the matrix handed to BitGauss::with
    pivs,         \* columns i at which the last gauss() reached `rank = i+1`
    ret,          \* what the last solve() returned
    field,        \* the grid handed to LightsSolver::with
    n_solutions,  \* LightsSolver.n_solutions
    min_weight,   \* LightsSolver.min_weight
    sol,          \* what the last LightsSolver::solve() returned
    op,           \* the last operation and its arguments
    pc            \* where a gauss() run step by step stands: [at, i, j]

vars == <<vec, pvec, sys, rank, psys, prank, orig, pivs, ret, field,
          n_solutions, min_weight, sol, op, pc>>

----------------------------------------------------------------------------
(* Word width of the 64-bit target. *)
WORDSIZE == 64
BIT_SHIFT == 6
BIT_MASK == WORDSIZE - 1

(* Bounds of the model. *)
MaxWords == 2
MaxRows == 2
MaxCols == 4
MaxNodes == 5
MaxGridRows == 2
MaxGridCols == 3

----------------------------------------------------------------------------
(* Vec<T> helpers. *)
VecLen(f) == Cardinality(DOMAIN f)
VecNew == [i \in {} |-> {}]
VecPush(f, x) ==
    [i \in 0..VecLen(f) |-> IF i < VecLen(f) THEN f[i] ELSE x]
VecResize(f, n, x) ==
    [i \in 0..(n - 1) |-> IF i < VecLen(f) THEN f[i] ELSE x]
VecTruncate(f, n) ==
    IF n < VecLen(f) THEN [i \in 0..(n - 1) |-> f[i]] ELSE f

(* usize words as sets of one-bit positions. *)
WordZero == {}
WordMax == 0..(WORDSIZE - 1)
WordXor(a, b) == (a \ b) \cup (b \ a)
RECURSIVE WordBits(_, _)
WordBits(i, k) ==
    IF i = 0 \/ k >= WORDSIZE THEN {}
    ELSE (IF i % 2 = 1 THEN {k} ELSE {}) \cup WordBits(i \div 2, k + 1)
WordOf(i) == WordBits(i, 0)

----------------------------------------------------------------------------
(* bitvec.rs: static helpers. *)
buf_index(index) == index \div (2 ^ BIT_SHIFT)
bit_index(index) == index % (BIT_MASK + 1)
bit_mask(index) == {bit_index(index)}
buf_capacity(capacity) ==
    IF bit_index(capacity) # 0 THEN buf_index(capacity) + 1
    ELSE buf_index(capacity)
create_buf(len) == VecResize(VecNew, buf_capacity(len), WordZero)

(* bitvec.rs: BitVec. *)
BitVec_new == [buf |-> VecNew, len |-> 0]
BitVec_with_capacity(capacity) == [buf |-> create_buf(capacity), len |-> 0]
BitVec_with_length(len) == [buf |-> create_buf(len), len |-> len]
BitVec_capacity(v) == VecLen(v.buf) * (2 ^ BIT_SHIFT)
BitVec_len(v) == v.len
BitVec_get(v, index) == bit_index(index) \in v.buf[buf_index(index)]
(* A variant of set that ands with the mask, not with its complement. *)
BitVec_set_unnegated(v, index, value) ==
    IF value
    THEN [v EXCEPT !.buf[buf_index(index)] = @ \cup bit_mask(index)]
    ELSE [v EXCEPT !.buf[buf_index(index)] = @ \cap bit_mask(index)]

BitVec_set(v, index, value) ==
    IF value
    THEN [v EXCEPT !.buf[buf_index(index)] = @ \cup bit_mask(index)]
    ELSE [v EXCEPT !.buf[buf_index(index)] = @ \ bit_mask(index)]
BitVec_setall(v, value) ==
    [v EXCEPT !.buf = [i \in DOMAIN v.buf |->
                           IF value THEN WordMax ELSE WordZero]]
BitVec_xor(v, index, value) ==
    IF value
    THEN [v EXCEPT !.buf[buf_index(index)] = WordXor(@, bit_mask(index))]
    ELSE v
BitVec_push(v, value) ==
    LET len == v.len
        grown == IF VecLen(v.buf) = 0 \/ len = BitVec_capacity(v)
                 THEN [v EXCEPT !.buf = VecPush(v.buf, WordZero)]
                 ELSE v
    IN  BitVec_set([grown EXCEPT !.len = len + 1], len, value)
(* pop: the vector afterwards, and the returned Option<bool>. *)
BitVec_pop(v) ==
    IF v.len = 0
    THEN [vec |-> v, result |-> "None"]
    ELSE [vec |-> [v EXCEPT !.len = v.len - 1],
          result |-> IF BitVec_get(v, v.len - 1) THEN "Some(true)"
                     ELSE "Some(false)"]
BitVec_extend(v, n) ==
    LET new_len == v.len + n
    IN  [buf |-> IF new_len > BitVec_capacity(v)
                 THEN VecResize(v.buf, buf_capacity(new_len), WordZero)
                 ELSE v.buf,
         len |-> new_len]
(* A variant of truncate that keeps the whole words below len only. *)
BitVec_truncate_floor(v, len) ==
    IF len < v.len
    THEN [buf |-> VecTruncate(v.buf, buf_index(len)), len |-> len]
    ELSE v

BitVec_truncate(v, len) ==
    IF len < v.len
    THEN [buf |-> VecTruncate(v.buf, buf_capacity(len)), len |-> len]
    ELSE v
BitVec_resize(v, new_len) ==
    IF new_len > BitVec_len(v)
    THEN BitVec_extend(v, new_len - BitVec_len(v))
    ELSE BitVec_truncate(v, new_len)
(* A variant of count_ones that counts the whole last word. *)
BitVec_count_ones_unmasked(v) ==
    LET len == BitVec_len(v)
        buf_len == buf_index(len)
        tie_len == bit_index(len)
        RECURSIVE Whole(_)
        Whole(i) == IF i = 0 THEN 0
                    ELSE Whole(i - 1) + Cardinality(v.buf[i - 1])
    IN  IF len = 0 THEN 0
        ELSE Whole(buf_len)
             + (IF tie_len # 0 THEN Cardinality(v.buf[buf_len]) ELSE 0)

BitVec_count_ones(v) ==
    LET len == BitVec_len(v)
        buf_len == buf_index(len)
        tie_len == bit_index(len)
        RECURSIVE Whole(_)
        Whole(i) == IF i = 0 THEN 0
                    ELSE Whole(i - 1) + Cardinality(v.buf[i - 1])
    IN  IF len = 0 THEN 0
        ELSE Whole(buf_len)
             + (IF tie_len # 0
                THEN Cardinality(v.buf[buf_len] \cap (0..(tie_len - 1)))
                ELSE 0)

----------------------------------------------------------------------------
(* bitmat.rs: BitMat, a Vec of rows. *)
BitMat_new_row(n_cols) == BitVec_with_length(n_cols)
BitMat_with_size(n_rows, n_cols) ==
    VecResize([i \in {} |-> BitVec_new], n_rows, BitMat_new_row(n_cols))
BitMat_n_rows(m) == VecLen(m)
BitMat_n_cols(m) == IF BitMat_n_rows(m) = 0 THEN 0 ELSE BitVec_len(m[0])
BitMat_swap(m, row_i, row_j) ==
    [m EXCEPT ![row_i] = m[row_j], ![row_j] = m[row_i]]
(* A variant of xor that ors the words of row_j onto row_i. *)
BitMat_xor_or(m, row_i, row_j) ==
    LET len == VecLen(m[row_j].buf)
    IN  [m EXCEPT ![row_i].buf =
            [i \in DOMAIN m[row_i].buf |->
                IF i < len THEN m[row_i].buf[i] \cup m[row_j].buf[i]
                ELSE m[row_i].buf[i]]]

(* xor(): each word of row_i is read and xored with the word of row_j; for *)
(* row_i = row_j the two are the same word, which becomes zero.            *)
BitMat_xor(m, row_i, row_j) ==
    LET len == VecLen(m[row_j].buf)
    IN  [m EXCEPT ![row_i].buf =
            [i \in DOMAIN m[row_i].buf |->
                IF i < len THEN WordXor(m[row_i].buf[i], m[row_j].buf[i])
                ELSE m[row_i].buf[i]]]
BitMat_set(m, row, col, value) ==
    [m EXCEPT ![row] = BitVec_set(m[row], col, value)]
BitMat_get(m, row, col) == BitVec_get(m[row], col)

----------------------------------------------------------------------------
(* bitalg.rs: BitGauss. *)
BitGauss_with(m) == [sys |-> m, rank |-> 0]

(* gauss(), lines 84-88: every row j in i..n_rows with a true bit in       *)
(* column i is swapped with row i, one after the other.                    *)
RECURSIVE PivotSearch(_, _, _)
PivotSearch(m, i, j) ==
    IF j >= BitMat_n_rows(m) THEN m
    ELSE PivotSearch(IF BitMat_get(m, j, i) THEN BitMat_swap(m, j, i) ELSE m,
                     i, j + 1)

(* A variant of Eliminate that clears column i below the pivot only. *)
RECURSIVE Eliminate_below(_, _, _)
Eliminate_below(m, i, j) ==
    IF j >= BitMat_n_rows(m) THEN m
    ELSE Eliminate_below(IF BitMat_get(m, j, i) /\ j > i
                         THEN BitMat_xor(m, j, i)
                         ELSE m,
                         i, j + 1)

(* gauss(), lines 99-103: row i is xored into every other row with a true  *)
(* bit in column i.                                                        *)
RECURSIVE Eliminate(_, _, _)
Eliminate(m, i, j) ==
    IF j >= BitMat_n_rows(m) THEN m
    ELSE Eliminate(IF BitMat_get(m, j, i) /\ j # i THEN BitMat_xor(m, j, i)
                   ELSE m,
                   i, j + 1)

(* A variant of RankAtPivot that counts the pivot onto the rank held. *)
RankAtPivot_incr(r, i) == r + 1

(* gauss(), line 96: the rank written when column i has its pivot. *)
RankAtPivot(r, i) == i + 1

(* gauss(), the loop over i.  g = [sys, rank, pivs]; pivs collects the     *)
(* columns at which the loop body did not `continue`.                      *)
RECURSIVE GaussLoop(_, _)
GaussLoop(g, i) ==
    IF i >= BitMat_n_rows(g.sys) THEN g
    ELSE LET found == PivotSearch(g.sys, i, i)
         IN  IF ~BitMat_get(found, i, i)
             THEN GaussLoop([g EXCEPT !.sys = found], i + 1)
             ELSE GaussLoop([sys |-> Eliminate(found, i, 0),
                             rank |-> RankAtPivot(g.rank, i),
                             pivs |-> g.pivs \cup {i}],
                            i + 1)

BitGauss_gauss(m, r) == GaussLoop([sys |-> m, rank |-> r, pivs |-> {}], 0)

(* solve(), lines 151-158: the accumulator for the candidate `rest`. *)
RECURSIVE AccumulateK(_, _, _, _, _, _)
AccumulateK(acc, m, rest, rk, j, k) ==
    IF k >= BitVec_len(rest) THEN acc
    ELSE AccumulateK(IF BitVec_get(rest, k)
                     THEN BitVec_xor(acc, j, BitMat_get(m, j, rk + k))
                     ELSE acc,
                     m, rest, rk, j, k + 1)
RECURSIVE AccumulateJ(_, _, _, _, _, _)
AccumulateJ(acc, m, rest, rk, n_vars, j) ==
    IF j >= rk THEN acc
    ELSE AccumulateJ(BitVec_xor(AccumulateK(acc, m, rest, rk, j, 0), j,
                                BitMat_get(m, j, n_vars)),
                     m, rest, rk, n_vars, j + 1)

(* solve(), lines 168-175: the solution built from accumulator and rest. *)
RECURSIVE CopyBits(_, _, _, _, _)
CopyBits(dst, src, offset, n, j) ==
    IF j >= n THEN dst
    ELSE CopyBits(BitVec_set(dst, offset + j, BitVec_get(src, j)),
                  src, offset, n, j + 1)

(* solve(), line 164: whether a candidate replaces the best one so far. *)
Improves(weight, best) == weight < best

(* solve(), lines 143-177: the loop over the candidates.                   *)
(* b = [min_weight, solution].                                             *)
RECURSIVE Candidates(_, _, _, _, _, _)
Candidates(b, m, rk, n_rest, n_solutions_, i) ==
    IF i >= n_solutions_ THEN b
    ELSE LET n_vars == BitMat_n_cols(m) - 1
             rest == [BitVec_with_length(n_rest) EXCEPT !.buf[0] = WordOf(i)]
             accumulator ==
                 AccumulateJ(BitVec_setall(
                                 BitVec_with_length(BitMat_n_rows(m)), FALSE),
                             m, rest, rk, n_vars, 0)
             weight == BitVec_count_ones(rest) + BitVec_count_ones(accumulator)
         IN  Candidates(IF Improves(weight, b.min_weight)
                        THEN [min_weight |-> weight,
                              solution |->
                                  CopyBits(CopyBits(b.solution, accumulator,
                                                    0, rk, 0),
                                           rest, rk, n_rest, 0)]
                        ELSE b,
                        m, rk, n_rest, n_solutions_, i + 1)

(* solve(), lines 118-122: some row at or below `rank` has a true          *)
(* augmented bit.                                                          *)
Inconsistent(m, rk, n_vars) ==
    \E i \in rk..(BitMat_n_rows(m) - 1) : BitMat_get(m, i, n_vars)

(* solve(), lines 128-132: the augmented bits of all rows, copied. *)
RECURSIVE CopyAugmented(_, _, _, _)
CopyAugmented(solution, m, n_vars, i) ==
    IF i >= BitMat_n_rows(m) THEN solution
    ELSE CopyAugmented(BitVec_set(solution, i, BitMat_get(m, i, n_vars)),
                       m, n_vars, i + 1)

(* solve(): the system afterwards and the returned Option<BitVec>.         *)
(* `n_vars - rank` underflows when rank > n_vars: the call does not        *)
(* return (overflow panic, or an allocation of 2^64 - k bits).             *)
BitGauss_solve(m, r) ==
    LET g == BitGauss_gauss(m, r)
        n_cols == BitMat_n_cols(g.sys)
        n_vars == n_cols - 1
        n_rest == n_vars - g.rank
        result ==
            IF Inconsistent(g.sys, g.rank, n_vars) THEN [kind |-> "None"]
            ELSE IF g.rank = n_vars
            THEN [kind |-> "Some",
                  vec |-> CopyAugmented(BitVec_with_length(n_vars), g.sys,
                                        n_vars, 0)]
            ELSE IF n_rest < 0 THEN [kind |-> "panic"]
            ELSE [kind |-> "Some",
                  vec |-> Candidates([min_weight |-> n_cols,
                                      solution |->
                                          BitVec_with_length(n_vars)],
                                     g.sys, g.rank, n_rest, 2 ^ n_rest,
                                     0).solution]
    IN  [sys |-> g.sys, rank |-> g.rank, pivs |-> g.pivs, ret |-> result]

----------------------------------------------------------------------------
(* ligsol.rs: LightsSolver. *)
(* A variant of sys_index that checks the index, not the column. *)
sys_index_wrap(row, col, n_rows, n_cols) ==
    IF 0 <= row /\ row < n_rows
       /\ 0 <= n_cols * row + col /\ n_cols * row + col < n_rows * n_cols
    THEN n_cols * row + col
    ELSE -1

sys_index(row, col, n_rows, n_cols) ==
    IF 0 <= row /\ row < n_rows /\ 0 <= col /\ col < n_cols
    THEN n_cols * row + col
    ELSE -1

(* with(), lines 41-64: the body of the two loops for one cell. *)
SetIfInField(m, neighbor, r, c) ==
    IF neighbor >= 0 THEN BitMat_set(m, r, c, TRUE) ELSE m
WithCell(m, fld, row, col, n_rows, n_cols) ==
    LET n == n_rows * n_cols
        himself == sys_index(row, col, n_rows, n_cols)
        right == sys_index(row, col + 1, n_rows, n_cols)
        left == sys_index(row, col - 1, n_rows, n_cols)
        down == sys_index(row + 1, col, n_rows, n_cols)
        up == sys_index(row - 1, col, n_rows, n_cols)
        m0 == BitMat_set(m, himself, himself, TRUE)
        m1 == SetIfInField(m0, right, himself, right)
        m2 == SetIfInField(m1, left, himself, left)
        m3 == SetIfInField(m2, down, down, himself)
        m4 == SetIfInField(m3, up, up, himself)
    IN  BitMat_set(m4, himself, n, BitMat_get(fld, row, col))

(* with(), lines 39-66: the loops, row by row and column by column. *)
RECURSIVE WithLoop(_, _, _, _, _)
WithLoop(m, fld, n_rows, n_cols, k) ==
    IF k >= n_rows * n_cols THEN m
    ELSE WithLoop(WithCell(m, fld, k \div n_cols, k % n_cols, n_rows, n_cols),
                  fld, n_rows, n_cols, k + 1)

LightsSolver_with(fld) ==
    LET n_rows == BitMat_n_rows(fld)
        n_cols == BitMat_n_cols(fld)
        n == n_rows * n_cols
    IN  [alg |-> BitGauss_with(WithLoop(BitMat_with_size(n, n + 1), fld,
                                        n_rows, n_cols, 0)),
         n_rows |-> n_rows,
         n_cols |-> n_cols,
         n_solutions |-> 0,
         min_weight |-> 0]

(* A variant of SolutionCount that shifts by the rank. *)
SolutionCount_rank(n, rk) == 2 ^ rk

(* solve(), line 96: 1usize << (n_rows * n_cols - rank), a shift by less   *)
(* than the word width.                                                    *)
SolutionCount(n, rk) == 2 ^ (n - rk)

(* solve(), lines 99-106: the solution vector laid out on the grid. *)
RECURSIVE GridOf(_, _, _, _, _)
GridOf(g, syssol, n_rows, n_cols, k) ==
    IF k >= n_rows * n_cols THEN g
    ELSE GridOf(IF BitVec_get(syssol, n_cols * (k \div n_cols) + (k % n_cols))
                THEN BitMat_set(g, k \div n_cols, k % n_cols, TRUE)
                ELSE g,
                syssol, n_rows, n_cols, k + 1)

(* solve(): the solver afterwards and the returned Option<BitMat>. *)
LightsSolver_solve(m, r, n_rows, n_cols, n_sol, min_w) ==
    LET s == BitGauss_solve(m, r)
    IN  IF s.ret.kind = "Some"
        THEN [sys |-> s.sys, rank |-> s.rank, pivs |-> s.pivs,
              n_solutions |-> SolutionCount(n_rows * n_cols, s.rank),
              min_weight |-> BitVec_count_ones(s.ret.vec),
              ret |-> [kind |-> "Some",
                       mat |-> GridOf(BitMat_with_size(n_rows, n_cols),
                                      s.ret.vec, n_rows, n_cols, 0)]]
        ELSE [sys |-> s.sys, rank |-> s.rank, pivs |-> s.pivs,
              n_solutions |-> n_sol, min_weight |-> min_w,
              ret |-> [kind |-> s.ret.kind]]

----------------------------------------------------------------------------
(* The BitVec exercised on its own.  Bits are written and lengths chosen   *)
(* at the edges of the words, where growth, truncation and masking act.    *)
MaxBits == MaxWords * WORDSIZE
(* Every length the vector takes is in EdgeLen and every bit that is read   *)
(* or written one at a time is at an index in EdgeIdx.                     *)
EdgeIdx == {i \in 0..(MaxBits - 1) : bit_index(i) \in {0, WORDSIZE - 1}}
EdgeLen == {n \in 0..MaxBits : bit_index(n) \in {0, 1, WORDSIZE - 1}}
NoMat == [i \in {} |-> BitVec_new]
NoRet == [kind |-> "unset"]
NoPc == [at |-> "idle", i |-> 0, j |-> 0]

IdleGauss ==
    /\ sys = NoMat /\ rank = 0 /\ psys = NoMat /\ prank = 0
    /\ orig = NoMat /\ pivs = {} /\ ret = NoRet
IdleLights ==
    /\ field = NoMat /\ n_solutions = 0 /\ min_weight = 0 /\ sol = NoRet
IdleVec ==
    /\ vec = BitVec_new /\ pvec = BitVec_new

InitVec ==
    /\ \E n \in EdgeLen :
          \/ vec = BitVec_new /\ op = [name |-> "new"]
          \/ vec = BitVec_with_capacity(n)
             /\ op = [name |-> "with_capacity", n |-> n]
          \/ vec = BitVec_with_length(n)
             /\ op = [name |-> "with_length", n |-> n]
    /\ pvec = vec
    /\ IdleGauss /\ IdleLights
    /\ pc = NoPc

VecFrame ==
    UNCHANGED <<sys, rank, psys, prank, orig, pivs, ret, field, n_solutions,
                min_weight, sol, pc>>

VecPushOp ==
    /\ vec.len \in EdgeIdx
    /\ \E value \in BOOLEAN :
          /\ vec' = BitVec_push(vec, value)
          /\ op' = [name |-> "push", value |-> value]
    /\ pvec' = vec
    /\ VecFrame

VecPopOp ==
    /\ vec.len = 0 \/ (vec.len - 1) \in EdgeIdx
    /\ \E popped \in {BitVec_pop(vec)} :
          /\ vec' = popped.vec
          /\ op' = [name |-> "pop", result |-> popped.result]
    /\ pvec' = vec
    /\ VecFrame

VecSetOp ==
    /\ \E index \in EdgeIdx, value \in BOOLEAN :
          /\ index < vec.len
          /\ vec' = BitVec_set(vec, index, value)
          /\ op' = [name |-> "set", index |-> index, value |-> value]
    /\ pvec' = vec
    /\ VecFrame

VecXorOp ==
    /\ \E index \in EdgeIdx, value \in BOOLEAN :
          /\ index < vec.len
          /\ vec' = BitVec_xor(vec, index, value)
          /\ op' = [name |-> "xor", index |-> index, value |-> value]
    /\ pvec' = vec
    /\ VecFrame

VecSetallOp ==
    /\ \E value \in BOOLEAN :
          /\ vec' = BitVec_setall(vec, value)
          /\ op' = [name |-> "setall", value |-> value]
    /\ pvec' = vec
    /\ VecFrame

VecResizeOp ==
    /\ \E n \in EdgeLen :
          /\ vec' = BitVec_resize(vec, n)
          /\ op' = [name |-> "resize", n |-> n]
    /\ pvec' = vec
    /\ VecFrame

VecExtendOp ==
    /\ \E n \in EdgeLen :
          /\ (vec.len + n) \in EdgeLen
          /\ vec' = BitVec_extend(vec, n)
          /\ op' = [name |-> "extend", n |-> n]
    /\ pvec' = vec
    /\ VecFrame

VecTruncateOp ==
    /\ \E n \in EdgeLen :
          /\ vec' = BitVec_truncate(vec, n)
          /\ op' = [name |-> "truncate", n |-> n]
    /\ pvec' = vec
    /\ VecFrame

NextVec ==
    \/ VecPushOp
    \/ VecPopOp
    \/ VecSetOp
    \/ VecXorOp
    \/ VecSetallOp
    \/ VecResizeOp
    \/ VecExtendOp
    \/ VecTruncateOp

SpecVec == InitVec /\ [][NextVec]_vars

----------------------------------------------------------------------------
(* BitGauss on its own: a system of n_rows equations over n_cols-1         *)
(* variables is built (with_size, then sys_mut().set for its true bits),   *)
(* handed to BitGauss::with, and gauss() and solve() are called on it.     *)
MatrixOf(n_rows, n_cols, bits) ==
    [i \in 0..(n_rows - 1) |->
        [BitVec_with_length(n_cols) EXCEPT !.buf[0] = bits[i]]]

InitGauss ==
    /\ \E n_rows \in 1..MaxRows, n_cols \in 2..MaxCols :
          \E bits \in [0..(n_rows - 1) -> SUBSET (0..(n_cols - 1))] :
             /\ sys = BitGauss_with(MatrixOf(n_rows, n_cols, bits)).sys
             /\ rank = BitGauss_with(MatrixOf(n_rows, n_cols, bits)).rank
             /\ orig = MatrixOf(n_rows, n_cols, bits)
    /\ psys = sys /\ prank = rank
    /\ pivs = {}
    /\ ret = NoRet
    /\ op = [name |-> "with"]
    /\ IdleVec /\ IdleLights
    /\ pc = NoPc

GaussFrame ==
    UNCHANGED <<vec, pvec, orig, field, n_solutions, min_weight, sol, pc>>

GaussOp ==
    /\ ret.kind # "panic"
    /\ \E g \in {BitGauss_gauss(sys, rank)} :
           /\ sys' = g.sys
           /\ rank' = g.rank
           /\ pivs' = g.pivs
    /\ ret' = NoRet
    /\ psys' = sys /\ prank' = rank
    /\ op' = [name |-> "gauss", before |-> op.name]
    /\ GaussFrame

SolveOp ==
    /\ ret.kind # "panic"
    /\ \E s \in {BitGauss_solve(sys, rank)} :
           /\ sys' = s.sys
           /\ rank' = s.rank
           /\ pivs' = s.pivs
           /\ ret' = s.ret
    /\ psys' = sys /\ prank' = rank
    /\ op' = [name |-> "solve", before |-> op.name]
    /\ GaussFrame

NextGauss ==
    \/ GaussOp
    \/ SolveOp

SpecGauss == InitGauss /\ [][NextGauss]_vars

----------------------------------------------------------------------------
(* BitGauss on the systems of toggle puzzles on a graph: pressing a node   *)
(* toggles the node and its neighbours, and every light starts on (as      *)
(* main.rs starts its grid).                                               *)
NodePairs(n) == {e \in SUBSET (0..(n - 1)) : Cardinality(e) = 2}
ToggleSystem(n, edges) ==
    MatrixOf(n, n + 1,
             [v \in 0..(n - 1) |->
                 {v} \cup {u \in 0..(n - 1) : {u, v} \in edges} \cup {n}])

InitToggle ==
    /\ \E n \in 1..MaxNodes :
          \E edges \in SUBSET NodePairs(n) :
             /\ sys = BitGauss_with(ToggleSystem(n, edges)).sys
             /\ rank = BitGauss_with(ToggleSystem(n, edges)).rank
             /\ orig = ToggleSystem(n, edges)
    /\ psys = sys /\ prank = rank
    /\ pivs = {}
    /\ ret = NoRet
    /\ op = [name |-> "with"]
    /\ IdleVec /\ IdleLights
    /\ pc = NoPc

SpecToggle == InitToggle /\ [][NextGauss]_vars

----------------------------------------------------------------------------
(* gauss() run one row at a time.  pc.at is "search" in the loop of lines  *)
(* 84-88, "eliminate" in the loop of lines 99-103, with pc.i and pc.j the  *)
(* loop variables, and "done" after the return.  The systems are those of  *)
(* InitGauss and the systems of the doc test of gauss().                   *)
MaxFlip == 3

(* The doc test's system: set(i, n-i-1, true) and set(i, n, true). *)
RECURSIVE FlipRows(_, _, _)
FlipRows(m, n, i) ==
    IF i >= n THEN m
    ELSE FlipRows(BitMat_set(BitMat_set(m, i, n - i - 1, TRUE), i, n, TRUE),
                  n, i + 1)
FlipSystem(n) == FlipRows(BitMat_with_size(n, n + 1), n, 0)

InitSteps ==
    /\ \/ \E n_rows \in 1..MaxRows, n_cols \in 2..MaxCols :
             \E bits \in [0..(n_rows - 1) -> SUBSET (0..(n_cols - 1))] :
                orig = MatrixOf(n_rows, n_cols, bits)
       \/ \E n \in 1..MaxFlip : orig = FlipSystem(n)
    /\ sys = BitGauss_with(orig).sys
    /\ rank = BitGauss_with(orig).rank
    /\ psys = sys /\ prank = rank
    /\ pivs = {}
    /\ ret = NoRet
    /\ op = [name |-> "with"]
    /\ pc = NoPc
    /\ IdleVec /\ IdleLights

StepFrame ==
    UNCHANGED <<vec, pvec, prank, orig, ret, field, n_solutions, min_weight,
                sol>>

(* The head of `for i in 0..n_rows` for the value i: the loop ends, or the *)
(* pivot search of column i starts at row i.                               *)
AtColumn(i) ==
    IF i >= BitMat_n_rows(sys) THEN [at |-> "done", i |-> i, j |-> 0]
    ELSE [at |-> "search", i |-> i, j |-> i]

(* gauss() is called. *)
GaussCall ==
    /\ pc.at = "idle"
    /\ pc' = AtColumn(0)
    /\ psys' = sys
    /\ pivs' = {}
    /\ op' = [name |-> "gauss", before |-> op.name]
    /\ UNCHANGED <<sys, rank>>
    /\ StepFrame

(* A variant of SearchRow that swaps row j with the row above row i. *)
SearchRow_above(m, i, j) ==
    IF BitMat_get(m, j, i) THEN BitMat_swap(m, j, IF i > 0 THEN i - 1 ELSE i)
    ELSE m

(* Lines 85-87: row j of the pivot search of column i. *)
SearchRow(m, i, j) ==
    IF BitMat_get(m, j, i) THEN BitMat_swap(m, j, i) ELSE m

SearchStep ==
    /\ pc.at = "search" /\ pc.j < BitMat_n_rows(sys)
    /\ sys' = SearchRow(sys, pc.i, pc.j)
    /\ pc' = [pc EXCEPT !.j = @ + 1]
    /\ UNCHANGED <<rank, psys, pivs, op>>
    /\ StepFrame

(* Lines 91-96: after the search, `continue` or the rank is written. *)
PivotCheck ==
    /\ pc.at = "search" /\ pc.j >= BitMat_n_rows(sys)
    /\ IF ~BitMat_get(sys, pc.i, pc.i)
       THEN /\ pc' = AtColumn(pc.i + 1)
            /\ psys' = sys
            /\ UNCHANGED <<rank, pivs>>
       ELSE /\ rank' = RankAtPivot(rank, pc.i)
            /\ pivs' = pivs \cup {pc.i}
            /\ pc' = [at |-> "eliminate", i |-> pc.i, j |-> 0]
            /\ UNCHANGED psys
    /\ UNCHANGED <<sys, op>>
    /\ StepFrame

(* A variant of EliminateRow that xors the pivot row into itself too. *)
EliminateRow_self(m, i, j) ==
    IF BitMat_get(m, j, i) THEN BitMat_xor(m, j, i) ELSE m

(* Lines 100-102: row j of the elimination of column i. *)
EliminateRow(m, i, j) ==
    IF BitMat_get(m, j, i) /\ j # i THEN BitMat_xor(m, j, i) ELSE m

EliminateStep ==
    /\ pc.at = "eliminate" /\ pc.j < BitMat_n_rows(sys)
    /\ sys' = EliminateRow(sys, pc.i, pc.j)
    /\ pc' = [pc EXCEPT !.j = @ + 1]
    /\ UNCHANGED <<rank, psys, pivs, op>>
    /\ StepFrame

(* The elimination of column i is over: on to column i + 1. *)
NextColumn ==
    /\ pc.at = "eliminate" /\ pc.j >= BitMat_n_rows(sys)
    /\ pc' = AtColumn(pc.i + 1)
    /\ psys' = sys
    /\ UNCHANGED <<sys, rank, pivs, op>>
    /\ StepFrame

NextSteps ==
    \/ GaussCall
    \/ SearchStep
    \/ PivotCheck
    \/ EliminateStep
    \/ NextColumn

SpecSteps == InitSteps /\ [][NextSteps]_vars

(* The steps end where gauss() taken whole ends. *)
StepsAgree ==
    pc.at = "done" =>
        /\ sys = BitGauss_gauss(orig, 0).sys
        /\ rank = BitGauss_gauss(orig, 0).rank
        /\ pivs = BitGauss_gauss(orig, 0).pivs

----------------------------------------------------------------------------
(* BitGauss edited in place: the solver is built on a matrix of false bits *)
(* (as the doc test of gauss() does), bits are written through sys_mut()   *)
(* and gauss() is called, in any order.                                    *)
InitEdit ==
    /\ \E n_rows \in 1..MaxRows, n_cols \in 2..MaxCols :
          /\ sys = BitGauss_with(BitMat_with_size(n_rows, n_cols)).sys
          /\ rank = BitGauss_with(BitMat_with_size(n_rows, n_cols)).rank
    /\ orig = sys
    /\ psys = sys /\ prank = rank
    /\ pivs = {}
    /\ ret = NoRet
    /\ op = [name |-> "with"]
    /\ pc = NoPc
    /\ IdleVec /\ IdleLights

(* sys_mut().set(row, col, value) *)
SysMutSetOp ==
    /\ \E row \in DOMAIN sys, col \in 0..(BitMat_n_cols(sys) - 1),
          value \in BOOLEAN :
          sys' = BitMat_set(sys, row, col, value)
    /\ psys' = sys /\ prank' = rank
    /\ op' = [name |-> "sys_mut", before |-> op.name]
    /\ UNCHANGED <<rank, pivs, ret>>
    /\ GaussFrame

NextEdit ==
    \/ SysMutSetOp
    \/ GaussOp

SpecEdit == InitEdit /\ [][NextEdit]_vars

----------------------------------------------------------------------------
(* LightsSolver: a grid is drawn (with_size and set, or every row          *)
(* setall(true) as main.rs does), the solver is built from it by with(),   *)
(* and solve() is called.                                                  *)
GridOfBits(n_rows, n_cols, bits) ==
    [i \in 0..(n_rows - 1) |->
        [BitVec_with_length(n_cols) EXCEPT !.buf[0] = bits[i]]]
AllOnGrid(n_rows, n_cols) ==
    [i \in 0..(n_rows - 1) |->
        BitVec_setall(BitMat_with_size(n_rows, n_cols)[i], TRUE)]

InitLights ==
    /\ \E n_rows \in 1..MaxGridRows, n_cols \in 1..MaxGridCols :
          \/ \E bits \in [0..(n_rows - 1) -> SUBSET (0..(n_cols - 1))] :
                field = GridOfBits(n_rows, n_cols, bits)
          \/ field = AllOnGrid(n_rows, n_cols)
    /\ IdleGauss
    /\ n_solutions = 0 /\ min_weight = 0 /\ sol = NoRet
    /\ op = [name |-> "field"]
    /\ IdleVec
    /\ pc = NoPc

LightsWithOp ==
    /\ op.name = "field"
    /\ \E solver \in {LightsSolver_with(field)} :
           /\ sys' = solver.alg.sys
           /\ rank' = solver.alg.rank
           /\ orig' = solver.alg.sys
           /\ n_solutions' = solver.n_solutions
           /\ min_weight' = solver.min_weight
    /\ psys' = sys /\ prank' = rank
    /\ op' = [name |-> "with"]
    /\ UNCHANGED <<vec, pvec, pivs, ret, field, sol, pc>>

LightsSolveOp ==
    /\ op.name \in {"with", "solve"}
    /\ \E s \in {LightsSolver_solve(sys, rank, BitMat_n_rows(field),
                                   BitMat_n_cols(field), n_solutions,
                                   min_weight)} :
           /\ sys' = s.sys
           /\ rank' = s.rank
           /\ pivs' = s.pivs
           /\ n_solutions' = s.n_solutions
           /\ min_weight' = s.min_weight
           /\ sol' = s.ret
    /\ psys' = sys /\ prank' = rank
    /\ op' = [name |-> "solve", before |-> op.name]
    /\ UNCHANGED <<vec, pvec, orig, ret, field, pc>>

NextLights ==
    \/ LightsWithOp
    \/ LightsSolveOp

SpecLights == InitLights /\ [][NextLights]_vars

----------------------------------------------------------------------------
(* BitMat on its own: a matrix of WORDSIZE + 1 columns, two words a row,   *)
(* is built (with_size, then set for its true bits, which are at the word  *)
(* edges), and rows are swapped and xored.                                 *)
EdgeCols == {0, WORDSIZE - 1, WORDSIZE}
WideMatrix(n_rows, bits) ==
    [i \in 0..(n_rows - 1) |->
        [BitVec_with_length(WORDSIZE + 1) EXCEPT
            !.buf = [w \in DOMAIN @ |->
                        {bit_index(c) : c \in {b \in bits[i] :
                                                  buf_index(b) = w}}]]]

InitMat ==
    /\ \E n_rows \in 1..MaxRows :
          \E bits \in [0..(n_rows - 1) -> SUBSET EdgeCols] :
             sys = WideMatrix(n_rows, bits)
    /\ psys = sys
    /\ rank = 0 /\ prank = 0 /\ orig = NoMat /\ pivs = {} /\ ret = NoRet
    /\ op = [name |-> "with_size"]
    /\ IdleVec /\ IdleLights
    /\ pc = NoPc

MatFrame ==
    UNCHANGED <<vec, pvec, rank, prank, orig, pivs, ret, field, n_solutions,
                min_weight, sol, pc>>

MatSwapOp ==
    /\ \E row_i \in DOMAIN sys, row_j \in DOMAIN sys :
          /\ sys' = BitMat_swap(sys, row_i, row_j)
          /\ op' = [name |-> "swap", row_i |-> row_i, row_j |-> row_j]
    /\ psys' = sys
    /\ MatFrame

MatXorOp ==
    /\ \E row_i \in DOMAIN sys, row_j \in DOMAIN sys :
          /\ sys' = BitMat_xor(sys, row_i, row_j)
          /\ op' = [name |-> "xor", row_i |-> row_i, row_j |-> row_j]
    /\ psys' = sys
    /\ MatFrame

NextMat ==
    \/ MatSwapOp
    \/ MatXorOp

SpecMat == InitMat /\ [][NextMat]_vars

----------------------------------------------------------------------------
(* What the claims speak of. *)

(* The variables of a system and the assignments of them, an assignment    *)
(* being the set of the variables set true.                                *)
NVars(m) == BitMat_n_cols(m) - 1
Assignments(m) == SUBSET (0..(NVars(m) - 1))
AssignmentOf(v, n_vars) == {i \in 0..(n_vars - 1) : BitVec_get(v, i)}

(* Row r of m holds under assignment a: the XOR of the coefficients at     *)
(* the variables of a equals the augmented bit.                            *)
RowHolds(m, r, a) ==
    (Cardinality({c \in a : BitMat_get(m, r, c)}) % 2 = 1)
        <=> BitMat_get(m, r, NVars(m))
Satisfies(m, a) == \A r \in 0..(BitMat_n_rows(m) - 1) : RowHolds(m, r, a)

Returned == AssignmentOf(ret.vec, NVars(orig))

(* C1: whenever solve() returns Some(assignment), the assignment satisfies *)
(* every equation of the matrix the BitGauss was built with.               *)
C1_SolutionSatisfies ==
    ret.kind = "Some" => Satisfies(orig, Returned)

(* C2: whenever solve() returns Some(assignment), no assignment that       *)
(* satisfies every equation of the system has fewer true bits.             *)
C2_MinimumWeight ==
    ret.kind = "Some" =>
        \A a \in Assignments(orig) :
            Satisfies(orig, a) => Cardinality(Returned) <= Cardinality(a)

(* A row with all coefficients false and the augmented bit true. *)
ContradictoryRow(m, r) ==
    /\ BitMat_get(m, r, NVars(m))
    /\ \A c \in 0..(NVars(m) - 1) : ~BitMat_get(m, r, c)

(* C3: solve() returns None for every system that has a row with all       *)
(* coefficients false and the augmented bit true.                          *)
C3_ContradictionRejected ==
    (/\ op.name = "solve"
     /\ \E r \in 0..(BitMat_n_rows(orig) - 1) : ContradictoryRow(orig, r))
        => ret.kind = "None"

(* C6: after gauss() on a fresh BitGauss, rank() is the number of columns  *)
(* at which a pivot was established, and at most n_rows.                   *)
C6_RankCountsPivots ==
    (op.name = "gauss" /\ op.before = "with") =>
        /\ rank = Cardinality(pivs)
        /\ rank <= BitMat_n_rows(sys)

(* The first column with a true bit in row r (n_cols if there is none). *)
Lead(m, r) ==
    LET ones == {c \in 0..(BitMat_n_cols(m) - 1) : BitMat_get(m, r, c)}
    IN  IF ones = {} THEN BitMat_n_cols(m)
        ELSE CHOOSE c \in ones : \A d \in ones : c <= d

(* C7: after gauss() each pivot column has its only true bit in the pivot  *)
(* row, the leading bits of the pivot rows move strictly right, and the    *)
(* rows without a pivot come after all pivot rows.                         *)
C7_ReducedRowEchelon ==
    (op.name = "gauss") =>
        /\ \A i \in pivs : \A r \in 0..(BitMat_n_rows(sys) - 1) :
              BitMat_get(sys, r, i) <=> (r = i)
        /\ \A i \in pivs : \A k \in pivs :
              i < k => Lead(sys, i) < Lead(sys, k)
        /\ \A i \in pivs : \A r \in (0..(BitMat_n_rows(sys) - 1)) \ pivs :
              i < r

(* C8: a gauss() called right after a gauss() leaves every bit of the      *)
(* matrix and the rank as the first call left them.                        *)
C8_GaussIdempotent ==
    (op.name = "gauss" /\ op.before = "gauss") =>
        (sys = psys /\ rank = prank)

(* A second gauss() in a row, after an elimination that moved rows and     *)
(* found pivots.                                                           *)
C8_Witness ==
    /\ op.name = "gauss" /\ op.before = "gauss"
    /\ sys # orig
    /\ Cardinality(pivs) >= 2

(* The grid of the puzzle: its cells, and the cells a press at (r, c)      *)
(* toggles, which are the cell and its in-bounds neighbours above, below,  *)
(* left and right.                                                         *)
GridRows == BitMat_n_rows(field)
GridCols == BitMat_n_cols(field)
Cells == (0..(GridRows - 1)) \X (0..(GridCols - 1))
Dist(a, b) == IF a >= b THEN a - b ELSE b - a
Toggles(p, q) == Dist(p[1], q[1]) + Dist(p[2], q[2]) <= 1
Pressed == {p \in Cells : BitMat_get(sol.mat, p[1], p[2])}
LitAfter(p) ==
    BitMat_get(field, p[1], p[2])
        # (Cardinality({q \in Pressed : Toggles(q, p)}) % 2 = 1)

(* C4: if LightsSolver::solve() returns a press-pattern, pressing its      *)
(* cells on the original grid leaves every light off.                      *)
C4_PatternClearsGrid ==
    sol.kind = "Some" => \A p \in Cells : ~LitAfter(p)

(* A returned pattern for a grid of two rows and two columns or more with  *)
(* a light on, in which some but not all cells are pressed.                *)
C4_Witness ==
    /\ sol.kind = "Some"
    /\ GridRows >= 2 /\ GridCols >= 2
    /\ \E p \in Cells : BitMat_get(field, p[1], p[2])
    /\ Pressed # {} /\ Pressed # Cells

(* C5: after solve() returns a pattern, n_solutions() is 2^(n - rank) and  *)
(* min_weight() is the number of pressed cells; the 1x1 grid with its      *)
(* light on gives the pressed cell, weight 1, 1 solution and rank 1.       *)
C5_CountsAfterSolve ==
    sol.kind = "Some" =>
        /\ n_solutions = 2 ^ (GridRows * GridCols - rank)
        /\ min_weight = Cardinality(Pressed)
        /\ (GridRows = 1 /\ GridCols = 1 /\ BitMat_get(field, 0, 0)) =>
              /\ Pressed = {<<0, 0>>}
              /\ min_weight = 1 /\ n_solutions = 1 /\ rank = 1

(* A returned pattern of a system with free variables, and the 1x1 grid    *)
(* with its light on solved.                                               *)
C5_Witness ==
    /\ sol.kind = "Some"
    /\ \/ rank < GridRows * GridCols /\ Pressed # {}
       \/ GridRows = 1 /\ GridCols = 1 /\ BitMat_get(field, 0, 0)

(* The variable of the cell p. *)
VarOf(p) == p[1] * GridCols + p[2]

(* C9: with() builds an n x (n+1) system whose coefficient (v, u) is true  *)
(* exactly when u is v or the variable of an in-bounds cell directly       *)
(* above, below, left or right of v, and whose augmented bit of row v is   *)
(* the state of cell v.                                                    *)
C9_SystemOfGrid ==
    op.name = "with" =>
        LET n == GridRows * GridCols
        IN  /\ BitMat_n_rows(sys) = n
            /\ BitMat_n_cols(sys) = n + 1
            /\ \A p \in Cells : \A u \in 0..(n - 1) :
                  BitMat_get(sys, VarOf(p), u)
                      <=> \E q \in Cells : VarOf(q) = u /\ Toggles(p, q)
            /\ \A p \in Cells :
                  BitMat_get(sys, VarOf(p), n)
                      <=> BitMat_get(field, p[1], p[2])

(* A system built from a grid with several rows and columns, with lights   *)
(* on and off.                                                             *)
C9_Witness ==
    /\ op.name = "with"
    /\ GridRows >= 2 /\ GridCols >= 2
    /\ \E p \in Cells : BitMat_get(field, p[1], p[2])
    /\ \E p \in Cells : ~BitMat_get(field, p[1], p[2])

(* C10: resize(n) with n > len() gives a vector of length n whose bits at  *)
(* [old len, n) read false and whose bits at [0, old len) are unchanged.   *)
C10_ResizeGrowsWithFalse ==
    (op.name = "resize" /\ op.n > pvec.len) =>
        /\ vec.len = op.n
        /\ \A i \in pvec.len..(op.n - 1) : ~BitVec_get(vec, i)
        /\ \A i \in 0..(pvec.len - 1) :
              BitVec_get(vec, i) <=> BitVec_get(pvec, i)

(* The indices below len() at which get() reads true. *)
TrueBits(v) == {i \in 0..(BitVec_len(v) - 1) : BitVec_get(v, i)}

(* C11: count_ones() is the number of indices below len() at which get()   *)
(* reads true, whatever the words hold at and beyond len(); right after    *)
(* setall(true) it is len(), right after setall(false) it is 0.            *)
C11_CountOnesInLength ==
    /\ BitVec_count_ones(vec) = Cardinality(TrueBits(vec))
    /\ op.name = "setall" =>
           BitVec_count_ones(vec) = (IF op.value THEN BitVec_len(vec) ELSE 0)

(* A vector whose length ends inside a word, with true bits below the      *)
(* length and true bits in the same word at or beyond it.                  *)
C11_Witness ==
    /\ bit_index(BitVec_len(vec)) # 0
    /\ TrueBits(vec) # {}
    /\ \E b \in vec.buf[buf_index(BitVec_len(vec))] :
          b >= bit_index(BitVec_len(vec))

(* The bits of row r of m, column by column. *)
RowBits(m, r) == {c \in 0..(BitMat_n_cols(m) - 1) : BitMat_get(m, r, c)}

(* C12 as stated: after xor(i, j), for any valid i and j, a second         *)
(* xor(i, j) gives row i the bit content it had before the first.          *)
C12_XorTwiceRestores ==
    op.name = "xor" =>
        RowBits(BitMat_xor(sys, op.row_i, op.row_j), op.row_i)
            = RowBits(psys, op.row_i)

(* C12 amended: after xor(i, j) with i # j, a second xor(i, j) gives row i *)
(* the bit content it had before the first and leaves the other rows as    *)
(* they were; after xor(i, i) row i has no true bit.                       *)
C12_XorTwiceRestoresOther ==
    op.name = "xor" =>
        IF op.row_i # op.row_j
        THEN BitMat_xor(sys, op.row_i, op.row_j) = psys
        ELSE RowBits(sys, op.row_i) = {}

(* A xor(i, j) with i # j of two rows with true bits, which changed row i, *)
(* in a matrix of rows of two words.                                       *)
C12_Witness ==
    /\ op.name = "xor" /\ op.row_i # op.row_j
    /\ RowBits(psys, op.row_i) # {}
    /\ \E c \in RowBits(psys, op.row_j) : c >= WORDSIZE
    /\ sys # psys

(* C13: after set(i, x) with i < len(), get(i) reads x, get(k) reads what  *)
(* it read before at every other index k < len(), and len() is unchanged.  *)
C13_SetWritesOneBit ==
    op.name = "set" =>
        /\ BitVec_get(vec, op.index) = op.value
        /\ \A k \in (0..(BitVec_len(pvec) - 1)) \ {op.index} :
              BitVec_get(vec, k) = BitVec_get(pvec, k)
        /\ BitVec_len(vec) = BitVec_len(pvec)

(* A set(i, false) of a true bit in the second word, with another true bit *)
(* below len() in the same word.                                           *)
C13_Witness ==
    /\ op.name = "set" /\ ~op.value
    /\ buf_index(op.index) = 1
    /\ BitVec_get(pvec, op.index)
    /\ \E k \in TrueBits(vec) : buf_index(k) = 1

(* The identity-ordered augmented form of n equations: row i has its only  *)
(* true coefficient at column i and a true augmented bit.                  *)
IdentityOrdered(m, n) ==
    /\ BitMat_n_rows(m) = n /\ BitMat_n_cols(m) = n + 1
    /\ \A i \in 0..(n - 1) : RowBits(m, i) = {i, n}

(* C14: gauss() on the n x (n+1) system whose equation i has its single    *)
(* true coefficient at variable n-i-1 and a true augmented bit leaves the  *)
(* identity-ordered augmented form and rank n; for n = 3 the rows          *)
(* 0011, 0101, 1001 become 1001, 0101, 0011.                               *)
C14_FlipToIdentity ==
    \A n \in 1..MaxFlip :
        (pc.at = "done" /\ orig = FlipSystem(n)) =>
            /\ \A i \in 0..(n - 1) : RowBits(orig, i) = {n - i - 1, n}
            /\ IdentityOrdered(sys, n)
            /\ rank = n
            /\ n = 3 =>
                  /\ <<RowBits(orig, 0), RowBits(orig, 1), RowBits(orig, 2)>>
                        = <<{2, 3}, {1, 3}, {0, 3}>>
                  /\ <<RowBits(sys, 0), RowBits(sys, 1), RowBits(sys, 2)>>
                        = <<{0, 3}, {1, 3}, {2, 3}>>

(* gauss() has returned on the doc test's system of three equations. *)
C14_Witness ==
    /\ pc.at = "done"
    /\ orig = FlipSystem(3)
    /\ sys # orig

(* The rows from i on with a true bit in column i of m, and the first. *)
RowsWithBit(m, i) ==
    {j \in i..(BitMat_n_rows(m) - 1) : BitMat_get(m, j, i)}
FirstOf(rows) == CHOOSE j \in rows : \A k \in rows : j <= k

(* C15: when the pivot search of column i is over, the matrix is the one   *)
(* the search began with, with row i and the first row from i on that has  *)
(* a true bit in column i exchanged, and unchanged if there is none.       *)
C15_FirstRowSwapped ==
    (pc.at = "search" /\ pc.j >= BitMat_n_rows(sys)) =>
        IF RowsWithBit(psys, pc.i) = {} THEN sys = psys
        ELSE sys = BitMat_swap(psys, pc.i, FirstOf(RowsWithBit(psys, pc.i)))

(* C17: at every step of gauss() the assignments that satisfy all rows of  *)
(* the matrix are those that satisfy all rows of the matrix handed in.     *)
C17_SolutionSetKept ==
    \A a \in Assignments(orig) : Satisfies(sys, a) <=> Satisfies(orig, a)

(* During a gauss() of a system that some but not all assignments satisfy, *)
(* a state after a row xor: a row that is no row of the matrix handed in.  *)
C17_Witness ==
    /\ pc.at \in {"search", "eliminate", "done"}
    /\ \E r \in DOMAIN sys : \A q \in DOMAIN orig : sys[r] # orig[q]
    /\ \E a \in Assignments(orig) : Satisfies(orig, a)
    /\ \E a \in Assignments(orig) : ~Satisfies(orig, a)

(* C16: len() <= capacity(), the number of words times the word width;     *)
(* push adds one word when len() equals capacity() or there is no word,    *)
(* and none otherwise; truncate to a shorter length leaves at most         *)
(* ceil(len / WORDSIZE) words.                                             *)
C16_LengthWithinCapacity ==
    /\ BitVec_len(vec) <= BitVec_capacity(vec)
    /\ BitVec_capacity(vec) = VecLen(vec.buf) * WORDSIZE
    /\ op.name = "push" =>
           VecLen(vec.buf) = VecLen(pvec.buf)
               + (IF VecLen(pvec.buf) = 0
                     \/ BitVec_len(pvec) = BitVec_capacity(pvec)
                  THEN 1 ELSE 0)
    /\ (op.name = "truncate" /\ op.n < BitVec_len(pvec)) =>
           VecLen(vec.buf) * WORDSIZE < op.n + WORDSIZE

(* A push onto a full word that added a second word, and a truncate of a   *)
(* vector of two words to a length inside the first.                       *)
C16_Witness ==
    \/ /\ op.name = "push"
       /\ VecLen(pvec.buf) = 1 /\ VecLen(vec.buf) = 2
    \/ /\ op.name = "truncate"
       /\ VecLen(pvec.buf) = 2 /\ VecLen(vec.buf) = 1
       /\ bit_index(op.n) # 0

(* C18: the rank after a gauss() is the rank gauss() computes on a fresh   *)
(* BitGauss, of rank 0, that holds the matrix the call began with.         *)
C18_RankOfMatrixOnly ==
    op.name = "gauss" => rank = BitGauss_gauss(psys, 0).rank

====
